---- MODULE Spec2Model ----
(***************************************************************************)
(* FarmerShield backend: the weather monitoring pass                       *)
(* (processWeatherTriggers), the Claim model and the payout call.          *)
(*                                                                         *)
(* Time is the millisecond clock read by Date.now() / new Date(), scaled   *)
(* down: Tick advances it, Interval is the setInterval period.             *)
(* Money is counted in integer units in which a quarter of every coverage  *)
(* amount of the input sets is a whole number, so 0.25 * n * coverage is   *)
(* exact.                                                                  *)
(* An optional JavaScript number is a set: {} is undefined, {v} is v.      *)
(* The Claim's pre('save') hook is taken to have run when the schema's     *)
(* required-check of netPayout is made.                                    *)
(***************************************************************************)
EXTENDS Integers, Sequences, FiniteSets, TLC

\* ---------------------------------------------------------------- bounds
NumPasses == 2
MaxTime == 4
MaxAmount == 2

\* ------------------------------------------------------- program constants
Interval == 3
DefaultCoverage == 1000

Passes == 1..NumPasses
Farmers == <<"f1", "f2">>
Metrics == <<"temperature", "rainfall", "humidity", "windSpeed">>
Phrase == [temperature |-> "Temperature threshold exceeded",
           rainfall |-> "Rainfall threshold exceeded",
           humidity |-> "Humidity threshold exceeded",
           windSpeed |-> "Wind speed threshold exceeded"]

\* ------------------------------------------------------------ input sets
Undefined == {}
AllThresholds ==
  [temperature |-> [min |-> Undefined, max |-> {35}],
   rainfall |-> [min |-> {50}, max |-> Undefined],
   humidity |-> [min |-> Undefined, max |-> {90}],
   windSpeed |-> [max |-> {50}]]
RainThresholds ==
  [temperature |-> [min |-> Undefined, max |-> Undefined],
   rainfall |-> [min |-> {50}, max |-> Undefined],
   humidity |-> [min |-> Undefined, max |-> Undefined],
   windSpeed |-> [max |-> Undefined]]
NoThresholds ==
  [temperature |-> [min |-> Undefined, max |-> Undefined],
   rainfall |-> [min |-> Undefined, max |-> Undefined],
   humidity |-> [min |-> Undefined, max |-> Undefined],
   windSpeed |-> [max |-> Undefined]]
Calm == [temperature |-> {30}, rainfall |-> {60}, humidity |-> {50}, windSpeed |-> {40}]
Dry == [temperature |-> {30}, rainfall |-> {20}, humidity |-> {50}, windSpeed |-> {40}]
Storm == [temperature |-> {40}, rainfall |-> {20}, humidity |-> {95}, windSpeed |-> {60}]
Readings == {Calm, Dry, Storm}
Coverages == {0, 1000}
ThresholdConfigs == {AllThresholds, RainThresholds}
RegisteredFarmer(coverageAmount, weatherThresholds) ==
  [isActive |-> TRUE,
   insuranceDetails |-> [isRegistered |-> TRUE, policyStatus |-> "active",
                         coverageAmount |-> coverageAmount],
   weatherThresholds |-> weatherThresholds]
\* a farmer account before register-insurance: the schema defaults
NewFarmer ==
  [isActive |-> TRUE,
   insuranceDetails |-> [isRegistered |-> FALSE, policyStatus |-> "inactive",
                         coverageAmount |-> 0],
   weatherThresholds |-> NoThresholds]

\* ------------------------------------------------------ JavaScript helpers
\* a >= b in the place of a > b
JsGtOrEqual(a, b) == \E x \in a : \E y \in b : x >= y

\* a > b on optional numbers: false when either side is undefined
JsGt(a, b) == \E x \in a : \E y \in b : x > y
\* a < b with a missing left side read as 0
JsLtMissingAsZero(a, b) ==
  \E x \in (IF a = {} THEN {0} ELSE a) : \E y \in b : x < y

JsLt(a, b) == \E x \in a : \E y \in b : x < y
\* b || d on an optional number: d when b is undefined or 0
OrElse(b, d) == IF b = Undefined \/ b = {0} THEN d ELSE CHOOSE x \in b : TRUE
MinOf(a, b) == IF a <= b THEN a ELSE b

\* ------------------------------------------------------- WeatherData model
\* the comparisons of exceedsThresholds the wrong way round
exceedsThresholdsInverted(values, thresholds) ==
  [m \in DOMAIN thresholds |->
     IF m = "windSpeed"
     THEN [exceeded |-> JsLt(values[m], thresholds[m].max),
           value |-> values[m],
           threshold |-> [max |-> thresholds[m].max]]
     ELSE [exceeded |-> JsLt(values[m], thresholds[m].max)
                          \/ JsGt(values[m], thresholds[m].min),
           value |-> values[m],
           threshold |-> thresholds[m]]]

exceedsThresholds(values, thresholds) ==
  [m \in DOMAIN thresholds |->
     IF m = "windSpeed"
     THEN [exceeded |-> JsGt(values[m], thresholds[m].max),
           value |-> values[m],
           threshold |-> [max |-> thresholds[m].max]]
     ELSE [exceeded |-> JsGt(values[m], thresholds[m].max)
                          \/ JsLt(values[m], thresholds[m].min),
           value |-> values[m],
           threshold |-> thresholds[m]]]

checkWeatherThresholds(weatherData, thresholds) ==
  exceedsThresholds(weatherData.values, thresholds)

\* ---------------------------------------------------------- redstoneService
\* a division by zero counted as 0
DivGtZeroAsZero(num, den, p, q) ==
  IF den > 0 THEN num * q > p * den
  ELSE IF den < 0 THEN num * q < p * den
  ELSE FALSE

\* num / den > p / q in JavaScript numbers, for q > 0: a division by zero
\* raises nothing and gives Infinity, -Infinity or NaN by the sign of num
DivGt(num, den, p, q) ==
  IF den > 0 THEN num * q > p * den
  ELSE IF den < 0 THEN num * q < p * den
  ELSE num > 0

\* deviation > 0.5 critical, > 0.2 severe, else moderate
SeverityOfDeviation(num, den) ==
  IF DivGt(num, den, 1, 2) THEN "critical"
  ELSE IF DivGt(num, den, 1, 5) THEN "severe"
  ELSE "moderate"

\* calculateSeverity(value, threshold) for a threshold object; a bound the
\* object does not hold takes the default -Infinity (min) or Infinity (max)
calculateSeverity(value, threshold) ==
  LET min == IF "min" \in DOMAIN threshold THEN threshold.min ELSE Undefined
      max == threshold.max
  IN  IF JsLt(value, min)
      THEN LET v == CHOOSE x \in value : TRUE
               b == CHOOSE x \in min : TRUE
           IN  SeverityOfDeviation(b - v, b)
      ELSE IF JsGt(value, max)
      THEN LET v == CHOOSE x \in value : TRUE
               b == CHOOSE x \in max : TRUE
           IN  SeverityOfDeviation(v - b, b)
      ELSE "normal"

\* the temperature compared with >= and <= in the place of > and <
redstoneCheckWeatherThresholdsNonStrict(values, thresholds) ==
  [m \in DOMAIN thresholds |->
     IF m = "windSpeed"
     THEN [exceeded |-> JsGt(values[m], thresholds[m].max),
           value |-> values[m],
           threshold |-> [max |-> thresholds[m].max],
           severity |-> calculateSeverity(values[m], [max |-> thresholds[m].max])]
     ELSE [exceeded |-> IF m = "temperature"
                        THEN \/ \E x \in values[m] : \E y \in thresholds[m].max : x >= y
                             \/ \E x \in values[m] : \E y \in thresholds[m].min : x <= y
                        ELSE JsGt(values[m], thresholds[m].max)
                               \/ JsLt(values[m], thresholds[m].min),
           value |-> values[m],
           threshold |-> thresholds[m],
           severity |-> calculateSeverity(values[m], thresholds[m])]]

\* redstoneService.checkWeatherThresholds over the normalized weather data:
\* values holds temperature.current, rainfall.value, humidity.value and
\* wind.speed.value
redstoneCheckWeatherThresholds(values, thresholds) ==
  [m \in DOMAIN thresholds |->
     IF m = "windSpeed"
     THEN [exceeded |-> JsGt(values[m], thresholds[m].max),
           value |-> values[m],
           threshold |-> [max |-> thresholds[m].max],
           severity |-> calculateSeverity(values[m], [max |-> thresholds[m].max])]
     ELSE [exceeded |-> JsGt(values[m], thresholds[m].max)
                          \/ JsLt(values[m], thresholds[m].min),
           value |-> values[m],
           threshold |-> thresholds[m],
           severity |-> calculateSeverity(values[m], thresholds[m])]]

\* ----------------------------------------------------------- weatherService
hasExceededThreshold(thresholdResults) ==
  \E m \in DOMAIN thresholdResults : thresholdResults[m].exceeded

ExceededCount(thresholdResults) ==
  Cardinality({m \in DOMAIN thresholdResults : thresholdResults[m].exceeded})

\* every further breach takes a quarter of what is left of the coverage
calculatePayoutAmountCompounded(farmer, thresholdResults) ==
  LET baseAmount == OrElse({farmer.insuranceDetails.coverageAmount}, DefaultCoverage)
      quarters == ExceededCount(thresholdResults)
      kept == CASE quarters = 0 -> 256 [] quarters = 1 -> 192 [] quarters = 2 -> 144
                [] quarters = 3 -> 108 [] OTHER -> 81
  IN  MinOf(baseAmount - (baseAmount * kept) \div 256, baseAmount)

calculatePayoutAmount(farmer, thresholdResults) ==
  LET baseAmount == OrElse({farmer.insuranceDetails.coverageAmount}, DefaultCoverage)
      quarters == ExceededCount(thresholdResults)
  IN  MinOf((baseAmount * quarters) \div 4, baseAmount)

RECURSIVE ReasonsFrom(_, _)
ReasonsFrom(thresholdResults, i) ==
  IF i > Len(Metrics) THEN << >>
  ELSE LET m == Metrics[i]
           rest == ReasonsFrom(thresholdResults, i + 1)
       IN  IF m \in DOMAIN thresholdResults /\ thresholdResults[m].exceeded
           THEN <<Phrase[m]>> \o rest
           ELSE rest

\* the separator put after every element, the last one too
RECURSIVE JoinTrailing(_, _)
JoinTrailing(reasons, sep) ==
  IF reasons = << >> THEN ""
  ELSE Head(reasons) \o sep \o JoinTrailing(Tail(reasons), sep)

\* reasons.join(sep)
RECURSIVE Join(_, _)
Join(reasons, sep) ==
  IF reasons = << >> THEN ""
  ELSE IF Len(reasons) = 1 THEN Head(reasons)
  ELSE Head(reasons) \o sep \o Join(Tail(reasons), sep)

generateTriggerReason(thresholdResults) ==
  LET reasons == ReasonsFrom(thresholdResults, 1)
  IN  Join(reasons, ", ")

\* ------------------------------------------------------------- Claim model
PreSaveNetPayout(amount, processingFee) ==
  IF amount # 0 /\ processingFee # 0 THEN amount - processingFee ELSE amount

MetricSnapshot(m, weatherData, thresholds, thresholdResults) ==
  [value |-> weatherData.values[m],
   threshold |-> OrElse(thresholds[m].max, 0),
   exceeded |-> m \in DOMAIN thresholdResults /\ thresholdResults[m].exceeded]

NewClaim(farmerId, farmer, weatherData, thresholdResults, t) ==
  LET amount == calculatePayoutAmount(farmer, thresholdResults)
  IN  [farmerId |-> farmerId,
       claimId |-> <<t, farmerId>>,
       weatherData |->
         [temperature |-> MetricSnapshot("temperature", weatherData,
                                         farmer.weatherThresholds, thresholdResults),
          rainfall |-> MetricSnapshot("rainfall", weatherData,
                                      farmer.weatherThresholds, thresholdResults),
          humidity |-> MetricSnapshot("humidity", weatherData,
                                      farmer.weatherThresholds, thresholdResults),
          windSpeed |-> MetricSnapshot("windSpeed", weatherData,
                                       farmer.weatherThresholds, thresholdResults),
          timestamp |-> weatherData.timestamp],
       amount |-> amount,
       status |-> "pending",
       transactionHash |-> Undefined,
       paidAt |-> Undefined,
       reviewedBy |-> Undefined,
       evidence |-> << >>,
       processingFee |-> 0,
       netPayout |-> PreSaveNetPayout(amount, 0),
       triggerReason |-> generateTriggerReason(thresholdResults)]

\* schema validators of a new Claim: payoutDetails.amount min 0,
\* triggerReason required (an empty string fails)
ClaimValid(claim) == claim.amount >= 0 /\ claim.triggerReason # ""

\* ------------------------------------------------------------------- state
\* now        the system clock
\* started    startWeatherMonitoring has run
\* nextFire   when the interval timer is next due
\* farmers    the Farmer collection
\* pass       the running invocations of processWeatherTriggers
\* claims     the Claim collection, by claimId
\* transfers  the triggerPayout invocations made so far
\* skipped    the farmers a pass left without a transfer, with the reason:
\*            no threshold exceeded, the save of the new Claim rejected, the
\*            fetch of the weather failed, or the evaluation threw
\* probe      the arguments and the result of one direct call of a pure
\*            function of the services (no call made: NoProbe)
\* chain      the storage of the deployed contracts and of the cUSD token
\* http       the route handlers in flight, by request
VARIABLES now, started, nextFire, farmers, pass, claims, transfers, skipped, probe,
          chain, http
vars == <<now, started, nextFire, farmers, pass, claims, transfers, skipped, probe,
          chain, http>>

NoWeather == [timestamp |-> 0, values |-> Calm]
NoDoc == NewClaim("", NewFarmer, NoWeather, << >>, 0)
NoResult == [success |-> FALSE, transactionHash |-> Undefined]
NoClaimId == <<0, "">>
IdlePass == [pc |-> "idle", queue |-> << >>, farmer |-> "", weatherData |-> NoWeather,
             claimId |-> NoClaimId, doc |-> NoDoc, payoutResult |-> NoResult]
NoProbe == [fn |-> "none"]

\* the accounts that call the contracts, and the holders of cUSD
Accounts == {"owner", "a1"}
Holders == Accounts \cup {"PayoutManager", "PremiumPool"}
Amounts == 0..MaxAmount
Latitudes == {"12.9", "28.6"}
NoFarmerRecord == [wallet |-> "0x0", latitude |-> "", longitude |-> "", cropType |-> ""]
NoCall == [fn |-> "", caller |-> "", farmer |-> "", amount |-> 0, reverted |-> FALSE]
\* the contracts after their constructors: "owner" deployed them, nobody is
\* registered; the PayoutManager and the account a1 hold some cUSD
Deployed ==
  [owner |-> "owner",
   farmers |-> [a \in Accounts |-> NoFarmerRecord],
   isFarmerRegistered |-> [a \in Accounts |-> FALSE],
   farmerBalances |-> [a \in Accounts |-> 0],
   balances |-> [h \in Holders |->
                  IF h \in {"PayoutManager", "a1"} THEN MaxAmount ELSE 0],
   allowance |-> [a \in Accounts |-> 0],
   lastCall |-> NoCall]
NoRequests == << >>
\* the requests a client sends; each handler runs once
Requests == {"r1", "r2"}
IdleRequest == [route |-> "", pc |-> "idle", farmer |-> "", claimId |-> NoClaimId,
                body |-> << >>, doc |-> << >>, response |-> 0]

Init ==
  /\ now = 0
  /\ started = FALSE
  /\ nextFire = 0
  /\ \E c \in Coverages, t \in ThresholdConfigs :
       farmers = [f1 |-> RegisteredFarmer(c, t), f2 |-> NewFarmer]
  /\ pass = [p \in Passes |-> IdlePass]
  /\ claims = << >>
  /\ transfers = {}
  /\ skipped = {}
  /\ probe = NoProbe
  /\ chain = Deployed
  /\ http = NoRequests

\* ----------------------------------------------------------------- actions
\* the farmer query without its policyStatus condition
FarmerFindAnyPolicy ==
  SelectSeq(Farmers, LAMBDA f : /\ farmers[f].isActive
                                /\ farmers[f].insuranceDetails.isRegistered)

\* Farmer.find({isActive, insuranceDetails.isRegistered, policyStatus: 'active'})
FarmerFind ==
  SelectSeq(Farmers, LAMBDA f : /\ farmers[f].isActive
                                /\ farmers[f].insuranceDetails.isRegistered
                                /\ farmers[f].insuranceDetails.policyStatus = "active")

\* the for-loop takes the next farmer of the list, or the pass ends
NextFarmer(queue) ==
  IF queue = << >>
  THEN IdlePass
  ELSE [IdlePass EXCEPT !.pc = "fetch", !.queue = Tail(queue), !.farmer = Head(queue)]

\* the system clock advances by one unit (time before the monitoring starts
\* is not counted)
Tick ==
  /\ started
  /\ now < MaxTime
  /\ now' = now + 1
  /\ UNCHANGED <<started, nextFire, farmers, pass, claims, transfers, skipped, probe, chain, http>>

\* arm the interval timer and run a pass at once
startWeatherMonitoring ==
  /\ ~started
  /\ started' = TRUE
  /\ nextFire' = now + Interval
  /\ pass' = [pass EXCEPT ![1].pc = "find"]
  /\ UNCHANGED <<now, farmers, claims, transfers, skipped, probe, chain, http>>

\* the interval timer is due: a new pass starts while earlier ones may still run
TimerFires(p) ==
  /\ started
  /\ now >= nextFire
  /\ pass[p].pc = "idle"
  /\ \A q \in Passes : q < p => pass[q].pc # "idle"
  /\ nextFire' = nextFire + Interval
  /\ pass' = [pass EXCEPT ![p].pc = "find"]
  /\ UNCHANGED <<now, started, farmers, claims, transfers, skipped, probe, chain, http>>

\* await Farmer.find(...) resolves
FindFarmers(p) ==
  /\ pass[p].pc = "find"
  /\ pass' = [pass EXCEPT ![p] = NextFarmer(FarmerFind)]
  /\ UNCHANGED <<now, started, nextFire, farmers, claims, transfers, skipped, probe, chain, http>>

\* await Farmer.find(...) rejects: the outer catch logs and the pass ends
FindFarmersFails(p) ==
  /\ pass[p].pc = "find"
  /\ pass' = [pass EXCEPT ![p] = IdlePass]
  /\ UNCHANGED <<now, started, nextFire, farmers, claims, transfers, skipped, probe, chain, http>>

\* getWeatherData succeeds: the observation is stamped with new Date() and saved
GetWeatherData(p) ==
  /\ pass[p].pc = "fetch"
  /\ \E reading \in Readings :
       pass' = [pass EXCEPT ![p].pc = "evaluate",
                            ![p].weatherData = [timestamp |-> now, values |-> reading]]
  /\ UNCHANGED <<now, started, nextFire, farmers, claims, transfers, skipped, probe, chain, http>>

\* a failed fetch leaves the loop and ends the pass
GetWeatherDataFailsEndsPass(p) ==
  /\ pass[p].pc = "fetch"
  /\ pass' = [pass EXCEPT ![p] = IdlePass]
  /\ skipped' = skipped \cup {<<pass[p].farmer, "fetchFailed">>}
  /\ UNCHANGED <<now, started, nextFire, farmers, claims, transfers, probe, chain, http>>

\* getWeatherData returns success: false (both providers or the save failed): continue
GetWeatherDataFails(p) ==
  /\ pass[p].pc = "fetch"
  /\ pass' = [pass EXCEPT ![p] = NextFarmer(pass[p].queue)]
  /\ skipped' = skipped \cup {<<pass[p].farmer, "fetchFailed">>}
  /\ UNCHANGED <<now, started, nextFire, farmers, claims, transfers, probe, chain, http>>

\* no threshold exceeded: nothing is done for this farmer
NoTrigger(p) ==
  /\ pass[p].pc = "evaluate"
  /\ LET farmer == farmers[pass[p].farmer]
         thresholdResults == checkWeatherThresholds(pass[p].weatherData,
                                                    farmer.weatherThresholds)
     IN  ~hasExceededThreshold(thresholdResults)
  /\ pass' = [pass EXCEPT ![p] = NextFarmer(pass[p].queue)]
  /\ skipped' = skipped \cup {<<pass[p].farmer, "noBreach">>}
  /\ UNCHANGED <<now, started, nextFire, farmers, claims, transfers, probe, chain, http>>

\* a threshold is exceeded: new Claim({... status: 'pending'}) and await claim.save()
CreateClaim(p) ==
  /\ pass[p].pc = "evaluate"
  /\ LET farmer == farmers[pass[p].farmer]
         thresholdResults == checkWeatherThresholds(pass[p].weatherData,
                                                    farmer.weatherThresholds)
         claim == NewClaim(pass[p].farmer, farmer, pass[p].weatherData,
                           thresholdResults, now)
     IN  /\ hasExceededThreshold(thresholdResults)
         /\ ClaimValid(claim)
         /\ claim.claimId \notin DOMAIN claims
         /\ claims' = claims @@ (claim.claimId :> claim)
         /\ pass' = [pass EXCEPT ![p].pc = "payout",
                                 ![p].claimId = claim.claimId,
                                 ![p].doc = claim]
  /\ UNCHANGED <<now, started, nextFire, farmers, transfers, skipped, probe, chain, http>>

\* the rejected save is swallowed and the pass goes on to the transfer
CreateClaimFailsThenPays(p) ==
  /\ pass[p].pc = "evaluate"
  /\ LET farmer == farmers[pass[p].farmer]
         thresholdResults == checkWeatherThresholds(pass[p].weatherData,
                                                    farmer.weatherThresholds)
         claim == NewClaim(pass[p].farmer, farmer, pass[p].weatherData,
                           thresholdResults, now)
     IN  /\ hasExceededThreshold(thresholdResults)
         /\ pass' = [pass EXCEPT ![p].pc = "payout",
                                 ![p].claimId = claim.claimId,
                                 ![p].doc = claim]
  /\ UNCHANGED <<now, started, nextFire, farmers, claims, transfers, skipped, probe, chain, http>>

\* claim.save() rejects (validation, duplicate claimId or a database error):
\* the per-farmer catch logs and the loop continues
CreateClaimFails(p) ==
  /\ pass[p].pc = "evaluate"
  /\ LET farmer == farmers[pass[p].farmer]
         thresholdResults == checkWeatherThresholds(pass[p].weatherData,
                                                    farmer.weatherThresholds)
     IN  hasExceededThreshold(thresholdResults)
  /\ pass' = [pass EXCEPT ![p] = NextFarmer(pass[p].queue)]
  /\ skipped' = skipped \cup {<<pass[p].farmer, "saveFailed">>}
  /\ UNCHANGED <<now, started, nextFire, farmers, claims, transfers, probe, chain, http>>

\* the status the database holds for a claimId, "none" when no such Claim
StoredStatus(claimId) ==
  IF claimId \in DOMAIN claims THEN claims[claimId].status ELSE "none"

\* contractService.triggerPayout: the try block stands for the PayoutManager
\* call and returns the success result, the catch turns every error into a
\* result with success: false, so the function itself never throws; the
\* random transaction hash is a token of the call
triggerPayout(farmerAddress, amount, success) ==
  IF success
  THEN [success |-> TRUE, transactionHash |-> {<<farmerAddress, amount>>}]
  ELSE [success |-> FALSE, transactionHash |-> Undefined]

\* await triggerPayout(farmer.walletAddress, claim.payoutDetails.amount)
TriggerPayout(p) ==
  /\ pass[p].pc = "payout"
  /\ \E success \in BOOLEAN :
       LET amount == pass[p].doc.amount
           payoutResult == triggerPayout(pass[p].farmer, amount, success)
       IN  /\ transfers' = transfers \cup
                                  {[farmer |-> pass[p].farmer,
                                    amount |-> amount,
                                    claimId |-> pass[p].claimId,
                                    timestamp |-> pass[p].weatherData.timestamp,
                                    claimStatus |-> StoredStatus(pass[p].claimId),
                                    success |-> success]}
           /\ pass' = [pass EXCEPT ![p].pc = "record", ![p].payoutResult = payoutResult]
  /\ UNCHANGED <<now, started, nextFire, farmers, claims, skipped, probe, chain, http>>

\* document.save() of an existing Claim writes the modified paths
SaveDoc(claimId, doc) ==
  IF claimId \in DOMAIN claims
  THEN [claims EXCEPT ![claimId].status = doc.status,
                      ![claimId].transactionHash = doc.transactionHash,
                      ![claimId].paidAt = doc.paidAt]
  ELSE claims

\* payoutResult.success: claim.markAsPaid(...) and its save succeeds
RecordPaid(p) ==
  /\ pass[p].pc = "record"
  /\ pass[p].payoutResult.success
  /\ claims' = SaveDoc(pass[p].claimId,
                       [status |-> "paid",
                        transactionHash |-> pass[p].payoutResult.transactionHash,
                        paidAt |-> {now}])
  /\ pass' = [pass EXCEPT ![p] = NextFarmer(pass[p].queue)]
  /\ UNCHANGED <<now, started, nextFire, farmers, transfers, skipped, probe, chain, http>>

\* markAsPaid's save rejects: the payout catch sets status 'failed' and saves
\* the document (with the fields markAsPaid assigned); that save may reject
\* too, into the per-farmer catch
RecordPaidFails(p) ==
  /\ pass[p].pc = "record"
  /\ pass[p].payoutResult.success
  /\ \E saved \in BOOLEAN :
       claims' = IF saved
                 THEN SaveDoc(pass[p].claimId,
                              [status |-> "failed",
                               transactionHash |-> pass[p].payoutResult.transactionHash,
                               paidAt |-> {now}])
                 ELSE claims
  /\ pass' = [pass EXCEPT ![p] = NextFarmer(pass[p].queue)]
  /\ UNCHANGED <<now, started, nextFire, farmers, transfers, skipped, probe, chain, http>>

\* payoutResult.success is false: there is no else branch and nothing was
\* thrown, so the Claim is not touched and the loop continues
RecordNothing(p) ==
  /\ pass[p].pc = "record"
  /\ ~pass[p].payoutResult.success
  /\ pass' = [pass EXCEPT ![p] = NextFarmer(pass[p].queue)]
  /\ UNCHANGED <<now, started, nextFire, farmers, claims, transfers, skipped, probe, chain, http>>

processWeatherTriggers(p) ==
  \/ FindFarmers(p)
  \/ FindFarmersFails(p)
  \/ GetWeatherData(p)
  \/ GetWeatherDataFails(p)
  \/ NoTrigger(p)
  \/ CreateClaim(p)
  \/ CreateClaimFails(p)
  \/ TriggerPayout(p)
  \/ RecordPaid(p)
  \/ RecordPaidFails(p)
  \/ RecordNothing(p)

Next ==
  \/ Tick
  \/ startWeatherMonitoring
  \/ \E p \in Passes : TimerFires(p)
  \/ \E p \in Passes : processWeatherTriggers(p)

Spec == Init /\ [][Next]_vars

TypeOK ==
  /\ now \in 0..MaxTime
  /\ started \in BOOLEAN
  /\ \A p \in Passes : pass[p].pc \in {"idle", "find", "fetch", "evaluate", "payout", "record"}
  /\ \A id \in DOMAIN claims : claims[id].status \in {"pending", "approved", "rejected", "paid", "failed"}

\* ------------------------------------------- Claim instance methods as operations
\* claim.approve(reviewedBy): no check of the current status
approve(claimId) ==
  /\ claimId \in DOMAIN claims
  /\ claims' = [claims EXCEPT ![claimId].status = "approved",
                              ![claimId].reviewedBy = {"admin"}]
  /\ UNCHANGED <<now, started, nextFire, farmers, pass, transfers, skipped, probe, chain, http>>

\* claim.reject(reviewedBy): no check of the current status
reject(claimId) ==
  /\ claimId \in DOMAIN claims
  /\ claims' = [claims EXCEPT ![claimId].status = "rejected",
                              ![claimId].reviewedBy = {"admin"}]
  /\ UNCHANGED <<now, started, nextFire, farmers, pass, transfers, skipped, probe, chain, http>>

\* claim.markAsPaid(transactionHash, ...): no check of the current status
markAsPaid(claimId) ==
  /\ claimId \in DOMAIN claims
  /\ claims' = SaveDoc(claimId, [status |-> "paid",
                                 transactionHash |-> {<<"manual", 0>>},
                                 paidAt |-> {now}])
  /\ UNCHANGED <<now, started, nextFire, farmers, pass, transfers, skipped, probe, chain, http>>

NextOps ==
  \/ Tick
  \/ startWeatherMonitoring
  \/ \E p \in Passes : processWeatherTriggers(p)
  \/ \E claimId \in DOMAIN claims : approve(claimId)
  \/ \E claimId \in DOMAIN claims : reject(claimId)
  \/ \E claimId \in DOMAIN claims : markAsPaid(claimId)

\* the startup pass together with direct calls of the Claim methods
SpecOps == Init /\ [][NextOps]_vars

\* ------------------------------------------------ policies and registration
isEligibleForPayout(farmer) ==
  /\ farmer.insuranceDetails.isRegistered
  /\ farmer.insuranceDetails.policyStatus = "active"
  /\ farmer.isActive

\* the second farmer's account does not hold an active policy
IneligibleFarmers ==
  {[isActive |-> a,
    insuranceDetails |-> [isRegistered |-> r, policyStatus |-> s, coverageAmount |-> 1000],
    weatherThresholds |-> RainThresholds] :
     a \in BOOLEAN, r \in BOOLEAN,
     s \in {"active", "inactive", "expired", "suspended"}}
  \ {RegisteredFarmer(1000, RainThresholds)}

InitPolicy ==
  /\ now = 0
  /\ started = FALSE
  /\ nextFire = 0
  /\ \E f2 \in IneligibleFarmers :
       farmers = [f1 |-> RegisteredFarmer(1000, RainThresholds), f2 |-> f2]
  /\ pass = [p \in Passes |-> IdlePass]
  /\ claims = << >>
  /\ transfers = {}
  /\ skipped = {}
  /\ probe = NoProbe
  /\ chain = Deployed
  /\ http = NoRequests

\* POST /register-insurance: refused when already registered, else the
\* insurance details are replaced and the policy becomes active
registerInsurance(f, coverageAmount) ==
  /\ ~farmers[f].insuranceDetails.isRegistered
  /\ farmers' = [farmers EXCEPT ![f].insuranceDetails =
                   [isRegistered |-> TRUE, policyStatus |-> "active",
                    coverageAmount |-> coverageAmount]]
  /\ UNCHANGED <<now, started, nextFire, pass, claims, transfers, skipped, probe, chain, http>>

NextPolicy ==
  \/ startWeatherMonitoring
  \/ \E p \in Passes : processWeatherTriggers(p)
  \/ \E f \in DOMAIN farmers : \E c \in Coverages : registerInsurance(f, c)

\* the startup pass over a collection that holds an account without an
\* active policy, with registrations arriving at any moment
SpecPolicy == InitPolicy /\ [][NextPolicy]_vars

\* ------------------------------------------------- a pass over two farmers
InitIsolation ==
  /\ now = 0
  /\ started = FALSE
  /\ nextFire = 0
  /\ \E c \in Coverages, t \in ThresholdConfigs :
       farmers = [f1 |-> RegisteredFarmer(1000, RainThresholds),
                  f2 |-> RegisteredFarmer(c, t)]
  /\ pass = [p \in Passes |-> IdlePass]
  /\ claims = << >>
  /\ transfers = {}
  /\ skipped = {}
  /\ probe = NoProbe
  /\ chain = Deployed
  /\ http = NoRequests

\* an exception raised in the loop body while the thresholds are checked or
\* the Claim is built: the per-farmer catch logs it and the loop continues
EvaluateThrows(p) ==
  /\ pass[p].pc = "evaluate"
  /\ pass' = [pass EXCEPT ![p] = NextFarmer(pass[p].queue)]
  /\ skipped' = skipped \cup {<<pass[p].farmer, "evaluateFailed">>}
  /\ UNCHANGED <<now, started, nextFire, farmers, claims, transfers, probe, chain, http>>

NextIsolation ==
  \/ startWeatherMonitoring
  \/ \E p \in Passes : processWeatherTriggers(p)
  \/ \E p \in Passes : EvaluateThrows(p)

\* the startup pass alone, over two insured farmers
SpecIsolation == InitIsolation /\ [][NextIsolation]_vars

\* ------------------------------------------------- POST /api/claims/:id/evidence
\* a response is sent and the handler ends
Respond(r, code) == [http EXCEPT ![r].pc = "done", ![r].response = code]

InitEvidence ==
  /\ now = 0
  /\ started = FALSE
  /\ nextFire = 0
  /\ farmers = [f1 |-> RegisteredFarmer(1000, RainThresholds), f2 |-> NewFarmer]
  /\ pass = [p \in Passes |-> IdlePass]
  /\ claims = << >>
  /\ transfers = {}
  /\ skipped = {}
  /\ probe = NoProbe
  /\ chain = Deployed
  /\ http = [r \in Requests |-> IdleRequest]

\* the request arrives with the farmer of its token; a body that fails the
\* validators is answered with 400 at once (by records who sent the evidence)
PostEvidence(r, farmer, claimId, valid) ==
  /\ http[r].pc = "idle"
  /\ http' = [http EXCEPT ![r] = [IdleRequest EXCEPT
                 !.route = "evidence", !.farmer = farmer, !.claimId = claimId,
                 !.body = [type |-> "field_photo", by |-> farmer],
                 !.pc = IF valid THEN "find" ELSE "done",
                 !.response = IF valid THEN 0 ELSE 400]]
  /\ UNCHANGED <<now, started, nextFire, farmers, pass, claims, transfers, skipped, probe, chain>>

\* await Claim.findOne({_id, farmerId}) resolves: 404 when there is no such
\* Claim of this farmer, 400 when its status is not pending, else the
\* evidence is pushed on the loaded document and its save is awaited
EvidenceFindOne(r) ==
  /\ http[r].route = "evidence"
  /\ http[r].pc = "find"
  /\ http' = IF \/ http[r].claimId \notin DOMAIN claims
                \/ claims[http[r].claimId].farmerId # http[r].farmer
             THEN Respond(r, 404)
             ELSE IF claims[http[r].claimId].status # "pending"
             THEN Respond(r, 400)
             ELSE [http EXCEPT ![r].pc = "save"]
  /\ UNCHANGED <<now, started, nextFire, farmers, pass, claims, transfers, skipped, probe, chain>>

\* await claim.save() resolves: the pushed evidence is written (the other
\* paths of the loaded document are not modified and are not written)
EvidenceSave(r) ==
  /\ http[r].route = "evidence"
  /\ http[r].pc = "save"
  /\ claims' = [claims EXCEPT ![http[r].claimId].evidence = Append(@, http[r].body)]
  /\ http' = Respond(r, 200)
  /\ UNCHANGED <<now, started, nextFire, farmers, pass, transfers, skipped, probe, chain>>

\* findOne or save rejects: the catch answers 500
EvidenceFails(r) ==
  /\ http[r].route = "evidence"
  /\ http[r].pc \in {"find", "save"}
  /\ http' = Respond(r, 500)
  /\ UNCHANGED <<now, started, nextFire, farmers, pass, claims, transfers, skipped, probe, chain>>

NextEvidence ==
  \/ startWeatherMonitoring
  \/ \E p \in Passes : processWeatherTriggers(p)
  \/ \E r \in Requests, f \in DOMAIN farmers, valid \in BOOLEAN :
       \E id \in DOMAIN claims \cup {NoClaimId} : PostEvidence(r, f, id, valid)
  \/ \E r \in Requests : EvidenceFindOne(r)
  \/ \E r \in Requests : EvidenceSave(r)
  \/ \E r \in Requests : EvidenceFails(r)

\* evidence requests next to the startup pass
SpecEvidence == InitEvidence /\ [][NextEvidence]_vars

\* --------------------------------------- POST /api/farmers/register-insurance
InitRegister ==
  /\ now = 0
  /\ started = FALSE
  /\ nextFire = 0
  /\ farmers = [f \in {"f1", "f2"} |-> NewFarmer]
  /\ pass = [p \in Passes |-> IdlePass]
  /\ claims = << >>
  /\ transfers = {}
  /\ skipped = {}
  /\ probe = NoProbe
  /\ chain = Deployed
  /\ http = [r \in Requests |-> IdleRequest]

\* isFloat({min: 0}) on coverageAmount
ValidRegistration(body) == body.coverageAmount >= 0

PostRegisterInsurance(r, farmer, coverageAmount) ==
  /\ http[r].pc = "idle"
  /\ LET body == [coverageAmount |-> coverageAmount]
     IN  http' = [http EXCEPT ![r] = [IdleRequest EXCEPT
                    !.route = "register", !.farmer = farmer, !.body = body,
                    !.pc = IF ValidRegistration(body) THEN "find" ELSE "done",
                    !.response = IF ValidRegistration(body) THEN 0 ELSE 400]]
  /\ UNCHANGED <<now, started, nextFire, farmers, pass, claims, transfers, skipped, probe, chain>>

\* await Farmer.findById resolves: 404 without a farmer, 400 when the loaded
\* document is registered, else insuranceDetails is set on the loaded
\* document and its save is awaited
RegisterFindById(r) ==
  /\ http[r].route = "register"
  /\ http[r].pc = "find"
  /\ http' = IF http[r].farmer \notin DOMAIN farmers
             THEN Respond(r, 404)
             ELSE IF farmers[http[r].farmer].insuranceDetails.isRegistered
             THEN Respond(r, 400)
             ELSE [http EXCEPT ![r].pc = "save",
                               ![r].doc = [isRegistered |-> TRUE, policyStatus |-> "active",
                                           coverageAmount |-> http[r].body.coverageAmount]]
  /\ UNCHANGED <<now, started, nextFire, farmers, pass, claims, transfers, skipped, probe, chain>>

\* await farmer.save() resolves: the insuranceDetails of the loaded document
\* are written
RegisterSave(r) ==
  /\ http[r].route = "register"
  /\ http[r].pc = "save"
  /\ farmers' = [farmers EXCEPT ![http[r].farmer].insuranceDetails = http[r].doc]
  /\ http' = Respond(r, 200)
  /\ UNCHANGED <<now, started, nextFire, pass, claims, transfers, skipped, probe, chain>>

\* findById or save rejects: the catch answers 500
RegisterFails(r) ==
  /\ http[r].route = "register"
  /\ http[r].pc \in {"find", "save"}
  /\ http' = Respond(r, 500)
  /\ UNCHANGED <<now, started, nextFire, farmers, pass, claims, transfers, skipped, probe, chain>>

NextRegister ==
  \/ \E r \in Requests, f \in DOMAIN farmers, c \in Coverages \cup {-1} :
       PostRegisterInsurance(r, f, c)
  \/ \E r \in Requests : RegisterFindById(r)
  \/ \E r \in Requests : RegisterSave(r)
  \/ \E r \in Requests : RegisterFails(r)

SpecRegister == InitRegister /\ [][NextRegister]_vars

\* ---------------------------------------- PUT /api/farmers/weather-thresholds
\* request bodies: the bounds a client names
ThresholdBodies ==
  { << >>,
    "rainfall" :> ("max" :> {80}),
    "temperature" :> ("min" :> {5} @@ "max" :> {40}),
    "windSpeed" :> ("max" :> {60}),
    "rainfall" :> ("min" :> {-1}) }

\* the isFloat validators of the route
ValidThresholds(body) ==
  /\ \A m \in DOMAIN body \cap {"rainfall", "windSpeed"} :
       \A side \in DOMAIN body[m] : \A v \in body[m][side] : v >= 0
  /\ \A m \in DOMAIN body \cap {"humidity"} :
       \A side \in DOMAIN body[m] : \A v \in body[m][side] : v >= 0 /\ v <= 100

\* { ...farmer.weatherThresholds, ...req.body } assigned to the nested path:
\* a metric of the body replaces the stored metric as a whole, and a bound
\* the replacing object does not hold is undefined
SpreadThresholds(stored, body) ==
  [m \in DOMAIN stored |->
     IF m \in DOMAIN body
     THEN [side \in DOMAIN stored[m] |->
             IF side \in DOMAIN body[m] THEN body[m][side] ELSE Undefined]
     ELSE stored[m]]

InitThresholds ==
  /\ now = 0
  /\ started = FALSE
  /\ nextFire = 0
  /\ farmers = [f1 |-> RegisteredFarmer(1000, AllThresholds), f2 |-> NewFarmer]
  /\ pass = [p \in Passes |-> IdlePass]
  /\ claims = << >>
  /\ transfers = {}
  /\ skipped = {}
  /\ probe = NoProbe
  /\ chain = Deployed
  /\ http = [r \in Requests |-> IdleRequest]

PutWeatherThresholds(r, farmer, body) ==
  /\ http[r].pc = "idle"
  /\ http' = [http EXCEPT ![r] = [IdleRequest EXCEPT
                 !.route = "thresholds", !.farmer = farmer, !.body = body,
                 !.pc = IF ValidThresholds(body) THEN "find" ELSE "done",
                 !.response = IF ValidThresholds(body) THEN 0 ELSE 400]]
  /\ UNCHANGED <<now, started, nextFire, farmers, pass, claims, transfers, skipped, probe, chain>>

\* await Farmer.findById resolves: 404 without a farmer, else the spread is
\* assigned on the loaded document and its save is awaited
ThresholdsFindById(r) ==
  /\ http[r].route = "thresholds"
  /\ http[r].pc = "find"
  /\ http' = IF http[r].farmer \notin DOMAIN farmers
             THEN Respond(r, 404)
             ELSE [http EXCEPT ![r].pc = "save",
                               ![r].doc = SpreadThresholds(farmers[http[r].farmer].weatherThresholds,
                                                           http[r].body)]
  /\ UNCHANGED <<now, started, nextFire, farmers, pass, claims, transfers, skipped, probe, chain>>

\* await farmer.save() resolves
ThresholdsSave(r) ==
  /\ http[r].route = "thresholds"
  /\ http[r].pc = "save"
  /\ farmers' = [farmers EXCEPT ![http[r].farmer].weatherThresholds = http[r].doc]
  /\ http' = Respond(r, 200)
  /\ UNCHANGED <<now, started, nextFire, pass, claims, transfers, skipped, probe, chain>>

\* findById or save rejects: the catch answers 500
ThresholdsFails(r) ==
  /\ http[r].route = "thresholds"
  /\ http[r].pc \in {"find", "save"}
  /\ http' = Respond(r, 500)
  /\ UNCHANGED <<now, started, nextFire, farmers, pass, claims, transfers, skipped, probe, chain>>

NextThresholds ==
  \/ \E r \in Requests, f \in DOMAIN farmers, body \in ThresholdBodies :
       PutWeatherThresholds(r, f, body)
  \/ \E r \in Requests : ThresholdsFindById(r)
  \/ \E r \in Requests : ThresholdsSave(r)
  \/ \E r \in Requests : ThresholdsFails(r)

SpecThresholds == InitThresholds /\ [][NextThresholds]_vars

\* ---------------------------------------------------------------- contracts
\* chain.lastCall records the last transaction sent and whether it reverted;
\* a reverted transaction changes nothing else
Call(fn, caller, farmer, amount, reverted) ==
  [fn |-> fn, caller |-> caller, farmer |-> farmer, amount |-> amount,
   reverted |-> reverted]

InitChain ==
  /\ now = 0
  /\ started = FALSE
  /\ nextFire = 0
  /\ farmers = [f1 |-> NewFarmer, f2 |-> NewFarmer]
  /\ pass = [p \in Passes |-> IdlePass]
  /\ claims = << >>
  /\ transfers = {}
  /\ skipped = {}
  /\ probe = NoProbe
  /\ chain = Deployed
  /\ http = NoRequests

\* FarmerRegistry.registerFarmer(_latitude, _longitude, _cropType)
FarmerRegistry_registerFarmer(caller, latitude) ==
  /\ chain' =
       IF chain.isFarmerRegistered[caller]
       THEN [chain EXCEPT !.lastCall = Call("registerFarmer", caller, caller, 0, TRUE)]
       ELSE [chain EXCEPT
               !.farmers[caller] = [wallet |-> caller, latitude |-> latitude,
                                    longitude |-> "77.5", cropType |-> "rice"],
               !.isFarmerRegistered[caller] = TRUE,
               !.lastCall = Call("registerFarmer", caller, caller, 0, FALSE)]
  /\ UNCHANGED <<now, started, nextFire, farmers, pass, claims, transfers, skipped, probe, http>>

\* updateFarmer without its onlyRegisteredFarmer modifier
FarmerRegistry_updateFarmerUnguarded(caller, latitude) ==
  /\ chain' = [chain EXCEPT
                 !.farmers[caller] = [wallet |-> caller, latitude |-> latitude,
                                      longitude |-> "77.5", cropType |-> "rice"],
                 !.lastCall = Call("updateFarmer", caller, caller, 0, FALSE)]
  /\ UNCHANGED <<now, started, nextFire, farmers, pass, claims, transfers, skipped, probe, http>>

\* FarmerRegistry.updateFarmer(...) onlyRegisteredFarmer
FarmerRegistry_updateFarmer(caller, latitude) ==
  /\ chain' =
       IF ~chain.isFarmerRegistered[caller]
       THEN [chain EXCEPT !.lastCall = Call("updateFarmer", caller, caller, 0, TRUE)]
       ELSE [chain EXCEPT
               !.farmers[caller] = [wallet |-> caller, latitude |-> latitude,
                                    longitude |-> "77.5", cropType |-> "rice"],
               !.lastCall = Call("updateFarmer", caller, caller, 0, FALSE)]
  /\ UNCHANGED <<now, started, nextFire, farmers, pass, claims, transfers, skipped, probe, http>>

\* cUSD.approve(PremiumPool, amount) by a farmer account
approve_PremiumPool(caller, amount) ==
  /\ chain' = [chain EXCEPT
                 !.allowance[caller] = amount,
                 !.lastCall = Call("approve", caller, caller, amount, FALSE)]
  /\ UNCHANGED <<now, started, nextFire, farmers, pass, claims, transfers, skipped, probe, http>>

\* payPremium without the check of the registry
PremiumPool_payPremiumUnregistered(caller, amount) ==
  /\ chain' =
       IF \/ ~(amount > 0)
          \/ chain.balances[caller] < amount
          \/ chain.allowance[caller] < amount
       THEN [chain EXCEPT !.lastCall = Call("payPremium", caller, caller, amount, TRUE)]
       ELSE [chain EXCEPT
               !.balances[caller] = @ - amount,
               !.balances["PremiumPool"] = @ + amount,
               !.allowance[caller] = @ - amount,
               !.farmerBalances[caller] = @ + amount,
               !.lastCall = Call("payPremium", caller, caller, amount, FALSE)]
  /\ UNCHANGED <<now, started, nextFire, farmers, pass, claims, transfers, skipped, probe, http>>

\* PremiumPool.payPremium(_amount): the two requires, then safeTransferFrom,
\* which reverts on a short balance or allowance, then the credit
PremiumPool_payPremium(caller, amount) ==
  /\ chain' =
       IF \/ ~chain.isFarmerRegistered[caller]
          \/ ~(amount > 0)
          \/ chain.balances[caller] < amount
          \/ chain.allowance[caller] < amount
       THEN [chain EXCEPT !.lastCall = Call("payPremium", caller, caller, amount, TRUE)]
       ELSE [chain EXCEPT
               !.balances[caller] = @ - amount,
               !.balances["PremiumPool"] = @ + amount,
               !.allowance[caller] = @ - amount,
               !.farmerBalances[caller] = @ + amount,
               !.lastCall = Call("payPremium", caller, caller, amount, FALSE)]
  /\ UNCHANGED <<now, started, nextFire, farmers, pass, claims, transfers, skipped, probe, http>>

\* triggerPayout without its onlyOwner modifier
PayoutManager_triggerPayoutAnyCaller(caller, farmer, amount) ==
  /\ chain' =
       IF \/ ~chain.isFarmerRegistered[farmer]
          \/ ~(amount > 0)
          \/ chain.balances["PayoutManager"] < amount
       THEN [chain EXCEPT !.lastCall = Call("triggerPayout", caller, farmer, amount, TRUE)]
       ELSE [chain EXCEPT
               !.balances["PayoutManager"] = @ - amount,
               !.balances[farmer] = @ + amount,
               !.lastCall = Call("triggerPayout", caller, farmer, amount, FALSE)]
  /\ UNCHANGED <<now, started, nextFire, farmers, pass, claims, transfers, skipped, probe, http>>

\* PayoutManager.triggerPayout(_farmer, _amount) onlyOwner: the two requires,
\* then safeTransfer, which reverts when the contract holds less than _amount
PayoutManager_triggerPayout(caller, farmer, amount) ==
  /\ chain' =
       IF \/ caller # chain.owner
          \/ ~chain.isFarmerRegistered[farmer]
          \/ ~(amount > 0)
          \/ chain.balances["PayoutManager"] < amount
       THEN [chain EXCEPT !.lastCall = Call("triggerPayout", caller, farmer, amount, TRUE)]
       ELSE [chain EXCEPT
               !.balances["PayoutManager"] = @ - amount,
               !.balances[farmer] = @ + amount,
               !.lastCall = Call("triggerPayout", caller, farmer, amount, FALSE)]
  /\ UNCHANGED <<now, started, nextFire, farmers, pass, claims, transfers, skipped, probe, http>>

NextChain ==
  \/ \E caller \in Accounts, latitude \in Latitudes :
       FarmerRegistry_registerFarmer(caller, latitude)
  \/ \E caller \in Accounts, latitude \in Latitudes :
       FarmerRegistry_updateFarmer(caller, latitude)
  \/ \E caller \in Accounts, amount \in Amounts : approve_PremiumPool(caller, amount)
  \/ \E caller \in Accounts, amount \in Amounts : PremiumPool_payPremium(caller, amount)
  \/ \E caller \in Accounts, farmer \in Accounts, amount \in Amounts :
       PayoutManager_triggerPayout(caller, farmer, amount)

SpecChain == InitChain /\ [][NextChain]_vars

\* ------------------------------------------------------------ getWeatherData
\* the service is loaded and the monitoring has not been started
NotMonitoring ==
  /\ now = 0
  /\ started = FALSE
  /\ nextFire = 0
  /\ farmers = [f1 |-> NewFarmer, f2 |-> NewFarmer]
  /\ pass = [p \in Passes |-> IdlePass]
  /\ claims = << >>
  /\ transfers = {}
  /\ skipped = {}
  /\ chain = Deployed
  /\ http = NoRequests

\* the bodies the two providers answer with (the fields the service reads)
WeatherApiBodies ==
  {[temp_c |-> t, humidity |-> 50, precip_mm |-> r, wind_kph |-> 40] :
     t \in {30, 40}, r \in {Undefined, {0}, {20}}}
OpenWeatherBodies ==
  {[temp |-> t, humidity |-> 50, rain1h |-> r, windSpeed |-> 10] :
     t \in {30, 40}, r \in {Undefined, {20}}}

\* processWeatherData(rawData, source, location) with new Date() = timestamp;
\* confidence in hundredths; wind of the OpenWeather format is m/s * 3.6
RECURSIVE processWeatherData(_, _, _)
processWeatherData(rawData, source, timestamp) ==
  IF source = "weatherapi"
  THEN [timestamp |-> timestamp,
        values |-> [temperature |-> {rawData.temp_c},
                    rainfall |-> {OrElse(rawData.precip_mm, 0)},
                    humidity |-> {rawData.humidity},
                    windSpeed |-> {rawData.wind_kph}],
        source |-> [type |-> source, confidence |-> 95]]
  ELSE IF source = "redstone"
  THEN [timestamp |-> timestamp,
        values |-> [temperature |-> {rawData.temp},
                    rainfall |-> {OrElse(rawData.rain1h, 0)},
                    humidity |-> {rawData.humidity},
                    windSpeed |-> {(rawData.windSpeed * 36) \div 10}],
        source |-> [type |-> source, confidence |-> 90]]
  ELSE processWeatherData(rawData, "redstone", timestamp)

NoWeatherResult == [success |-> FALSE, data |-> {}, source |-> ""]
NoFetchResult == [success |-> FALSE, data |-> {}]

\* one call of getWeatherData; env fixes what the two providers and the
\* database will answer ({} for a provider: its request fails)
InitFetch ==
  /\ NotMonitoring
  /\ \E w \in {Undefined} \cup {{b} : b \in WeatherApiBodies},
        o \in {Undefined} \cup {{b} : b \in OpenWeatherBodies},
        saveOk \in BOOLEAN :
       probe = [fn |-> "getWeatherData",
                env |-> [weatherapi |-> w, openweather |-> o, saveOk |-> saveOk],
                pc |-> "primary",
                queried |-> << >>,
                weatherResult |-> NoWeatherResult,
                saved |-> {},
                result |-> NoFetchResult]

\* the primary is asked and the backup after it, whatever the primary answers
FetchWeatherAPIDataThenBackup ==
  /\ probe.fn = "getWeatherData"
  /\ probe.pc = "primary"
  /\ probe' = [probe EXCEPT
                 !.queried = Append(@, "weatherapi"),
                 !.weatherResult = [success |-> probe.env.weatherapi # {},
                                    data |-> probe.env.weatherapi,
                                    source |-> "weatherapi"],
                 !.pc = "backup"]
  /\ UNCHANGED <<now, started, nextFire, farmers, pass, claims, transfers, skipped, chain, http>>

\* await fetchWeatherAPIData(...): success with the body, or success: false
FetchWeatherAPIData ==
  /\ probe.fn = "getWeatherData"
  /\ probe.pc = "primary"
  /\ probe' = [probe EXCEPT
                 !.queried = Append(@, "weatherapi"),
                 !.weatherResult = [success |-> probe.env.weatherapi # {},
                                    data |-> probe.env.weatherapi,
                                    source |-> "weatherapi"],
                 !.pc = IF probe.env.weatherapi # {} THEN "save" ELSE "backup"]
  /\ UNCHANGED <<now, started, nextFire, farmers, pass, claims, transfers, skipped, chain, http>>

\* if (!weatherResult.success) await fetchOpenWeatherData(...); when that fails
\* too, the thrown 'All weather APIs failed' is caught and success: false returned
FetchOpenWeatherData ==
  /\ probe.fn = "getWeatherData"
  /\ probe.pc = "backup"
  /\ probe' = [probe EXCEPT
                 !.queried = Append(@, "openweather"),
                 !.weatherResult = [success |-> probe.env.openweather # {},
                                    data |-> probe.env.openweather,
                                    source |-> "openweather"],
                 !.pc = IF probe.env.openweather # {} THEN "save" ELSE "done",
                 !.result = NoFetchResult]
  /\ UNCHANGED <<now, started, nextFire, farmers, pass, claims, transfers, skipped, chain, http>>

\* processWeatherData and await saveWeatherData(...): the saved document is
\* returned, or the save's error is caught and success: false returned
SaveWeatherData ==
  /\ probe.fn = "getWeatherData"
  /\ probe.pc = "save"
  /\ LET rawData == CHOOSE b \in probe.weatherResult.data : TRUE
         processedData == processWeatherData(rawData, probe.weatherResult.source, now)
     IN  probe' = [probe EXCEPT
                    !.saved = IF probe.env.saveOk THEN @ \cup {processedData} ELSE @,
                    !.result = IF probe.env.saveOk
                               THEN [success |-> TRUE, data |-> {processedData}]
                               ELSE NoFetchResult,
                    !.pc = "done"]
  /\ UNCHANGED <<now, started, nextFire, farmers, pass, claims, transfers, skipped, chain, http>>

getWeatherData ==
  \/ FetchWeatherAPIData
  \/ FetchOpenWeatherData
  \/ SaveWeatherData

NextFetch == getWeatherData

SpecFetch == InitFetch /\ [][NextFetch]_vars

\* --------------------------------------- direct calls of the payout functions
CalcCoverages == {0, 4, 400, 1000}
\* the thresholdResults objects: a metric is absent (not configured), present
\* and not exceeded, or present and exceeded
ResultShapes == [{"temperature", "rainfall", "humidity", "windSpeed"} ->
                   {"absent", "normal", "exceeded"}]
ThresholdResultsOf(shape) ==
  [m \in {k \in DOMAIN shape : shape[k] # "absent"} |->
     [exceeded |-> shape[m] = "exceeded"]]

InitCalc ==
  /\ NotMonitoring
  /\ \E c \in CalcCoverages, shape \in ResultShapes :
       probe = [fn |-> "payout",
                farmer |-> RegisteredFarmer(c, NoThresholds),
                thresholdResults |-> ThresholdResultsOf(shape),
                amount |-> Undefined,
                triggerReason |-> Undefined]

CallCalculatePayoutAmount ==
  /\ probe.fn = "payout"
  /\ probe.amount = Undefined
  /\ probe' = [probe EXCEPT !.amount =
                 {calculatePayoutAmount(probe.farmer, probe.thresholdResults)}]
  /\ UNCHANGED <<now, started, nextFire, farmers, pass, claims, transfers, skipped, chain, http>>

CallGenerateTriggerReason ==
  /\ probe.fn = "payout"
  /\ probe.triggerReason = Undefined
  /\ probe' = [probe EXCEPT !.triggerReason =
                 {generateTriggerReason(probe.thresholdResults)}]
  /\ UNCHANGED <<now, started, nextFire, farmers, pass, claims, transfers, skipped, chain, http>>

NextCalc ==
  \/ CallCalculatePayoutAmount
  \/ CallGenerateTriggerReason

SpecCalc == InitCalc /\ [][NextCalc]_vars

\* ------------------------------------------- direct calls of the evaluators
\* bounds the weather-thresholds route accepts: any number for temperature,
\* 0 or more for rainfall, humidity and wind speed; a bound may be unset
TemperatureBounds == {Undefined, {-10}, {0}, {10}}
OtherBounds == {Undefined, {0}, {10}}
\* observed values: any number for temperature and wind, 0 or more where the
\* WeatherData schema says min: 0; a value may be missing
TemperatureValues ==
  {Undefined} \cup {{v} : v \in {-20, -15, -12, -11, -10, -8, -5, 0, 5, 8, 10, 11, 12, 15, 20}}
OtherValues == {Undefined} \cup {{v} : v \in {0, 5, 8, 10, 11, 12, 15, 20}}

\* the arguments of one evaluation: one metric takes every value and every
\* pair of bounds, the other three come from a reading and AllThresholds;
\* or the thresholds object holds only some of the metrics
EvalInputs ==
  {[values |-> [r EXCEPT !["temperature"] = v],
    thresholds |-> [AllThresholds EXCEPT !["temperature"] = [min |-> lo, max |-> hi]]] :
     r \in Readings, v \in TemperatureValues,
     lo \in TemperatureBounds, hi \in TemperatureBounds}
  \cup
  {[values |-> [r EXCEPT ![m] = v],
    thresholds |-> [AllThresholds EXCEPT ![m] = [min |-> lo, max |-> hi]]] :
     r \in Readings, m \in {"rainfall", "humidity"}, v \in OtherValues,
     lo \in OtherBounds, hi \in OtherBounds}
  \cup
  {[values |-> [r EXCEPT !["windSpeed"] = v],
    thresholds |-> [AllThresholds EXCEPT !["windSpeed"] = [max |-> hi]]] :
     r \in Readings, v \in OtherValues, hi \in OtherBounds}
  \cup
  {[values |-> r, thresholds |-> [m \in configured |-> AllThresholds[m]]] :
     r \in Readings,
     configured \in SUBSET {"temperature", "rainfall", "humidity", "windSpeed"}}

InitEval ==
  /\ NotMonitoring
  /\ \E args \in EvalInputs :
       probe = [fn |-> "evaluate",
                values |-> args.values,
                thresholds |-> args.thresholds,
                results |-> {},
                redstoneResults |-> {}]

\* weatherData.exceedsThresholds(thresholds)
CallExceedsThresholds ==
  /\ probe.fn = "evaluate"
  /\ probe.results = {}
  /\ probe' = [probe EXCEPT !.results =
                 {exceedsThresholds(probe.values, probe.thresholds)}]
  /\ UNCHANGED <<now, started, nextFire, farmers, pass, claims, transfers, skipped, chain, http>>

\* redstoneService.checkWeatherThresholds(weatherData, thresholds)
CallRedstoneCheckWeatherThresholds ==
  /\ probe.fn = "evaluate"
  /\ probe.redstoneResults = {}
  /\ probe' = [probe EXCEPT !.redstoneResults =
                 {redstoneCheckWeatherThresholds(probe.values, probe.thresholds)}]
  /\ UNCHANGED <<now, started, nextFire, farmers, pass, claims, transfers, skipped, chain, http>>

NextEval ==
  \/ CallExceedsThresholds
  \/ CallRedstoneCheckWeatherThresholds

SpecEval == InitEval /\ [][NextEval]_vars

\* ------------------------------------------------------------------ claims
\* the (farmer, triggering observation) key of a stored Claim
TriggerKey(claim) == <<claim.farmerId, claim.weatherData.timestamp>>

\* a pass is between creating this Claim and recording its transfer outcome
InFlight(claimId) ==
  \E p \in Passes : pass[p].pc \in {"payout", "record"} /\ pass[p].claimId = claimId

\* C1: for every (farmer, triggering observation) key at most one Claim with a
\* status other than failed exists, however the passes for that key interleave
C1_OneClaimPerTrigger ==
  \A a \in DOMAIN claims : \A b \in DOMAIN claims :
    (/\ TriggerKey(claims[a]) = TriggerKey(claims[b])
     /\ claims[a].status # "failed"
     /\ claims[b].status # "failed") => a = b

\* C2: the ledger transfer is invoked at most once for a farmer and triggering
\* observation: no two triggerPayout invocations carry the same key
C2_OneTransferPerTrigger ==
  \A x \in transfers : \A y \in transfers :
    (x.farmer = y.farmer /\ x.timestamp = y.timestamp) => x = y

\* C3: every triggerPayout invocation was made for a Claim that the database
\* already held with status pending, and a pass that is at or past the
\* transfer holds a Claim that was persisted
C3_PersistedBeforeTransfer ==
  /\ \A x \in transfers : x.claimStatus = "pending" /\ x.claimId \in DOMAIN claims
  /\ \A p \in Passes : pass[p].pc \in {"payout", "record"} =>
                         pass[p].claimId \in DOMAIN claims

\* a transfer has been invoked for a stored pending Claim, and a pass whose
\* save of the new Claim rejected has moved on without a transfer
C3_Witness ==
  /\ \E x \in transfers : x.claimId \in DOMAIN claims /\ x.claimStatus = "pending"
  /\ \E f \in DOMAIN farmers : <<f, "saveFailed">> \in skipped
  /\ Cardinality(transfers) <= Cardinality(DOMAIN claims)

\* C4: once the stored status of a Claim is paid, failed or rejected, no step
\* changes it
C4_TerminalStatusFinal ==
  [][\A id \in DOMAIN claims :
       claims[id].status \in {"paid", "failed", "rejected"} =>
         claims'[id].status = claims[id].status]_vars

\* C5: a Claim whose transfer reported success and whose pass has finished
\* with it is stored as paid, with the transaction reference and paidAt
C5_SuccessEndsPaid ==
  \A x \in transfers :
    (x.success /\ ~InFlight(x.claimId)) =>
      /\ claims[x.claimId].status = "paid"
      /\ claims[x.claimId].transactionHash # Undefined
      /\ claims[x.claimId].paidAt # Undefined

C8_NoAbandonedPending ==
  \A id \in DOMAIN claims : claims[id].status = "pending" => InFlight(id)

\* a metric of the observation is below its min or above its max bound
Breaches(values, thresholds) ==
  \/ \E m \in {"temperature", "rainfall", "humidity"} :
       \E v \in values[m] :
         \/ \E b \in thresholds[m].min : v < b
         \/ \E b \in thresholds[m].max : v > b
  \/ \E v \in values["windSpeed"] : \E b \in thresholds["windSpeed"].max : v > b

ClaimValues(claim) ==
  [m \in {"temperature", "rainfall", "humidity", "windSpeed"} |->
     claim.weatherData[m].value]

\* C9: every stored Claim, every transfer and every pass at or past the
\* transfer comes from an observation that breaches a threshold of its farmer,
\* and every stored Claim has a metric with exceeded = true
C9_NoBreachNoClaim ==
  /\ \A id \in DOMAIN claims :
       /\ \E m \in {"temperature", "rainfall", "humidity", "windSpeed"} :
            claims[id].weatherData[m].exceeded
       /\ Breaches(ClaimValues(claims[id]),
                   farmers[claims[id].farmerId].weatherThresholds)
  /\ \A x \in transfers :
       /\ x.claimId \in DOMAIN claims
       /\ Breaches(ClaimValues(claims[x.claimId]), farmers[x.farmer].weatherThresholds)
  /\ \A p \in Passes :
       pass[p].pc \in {"payout", "record"} =>
         Breaches(pass[p].weatherData.values, farmers[pass[p].farmer].weatherThresholds)

\* one pass found no breach for the farmer and left no Claim, and a Claim
\* created from a breaching observation is stored
C9_Witness ==
  /\ \E id \in DOMAIN claims : <<claims[id].farmerId, "noBreach">> \in skipped
  /\ Cardinality(DOMAIN claims) = 1
  /\ \A p \in Passes : pass[p].pc = "idle"

\* C10: the netPayout of every stored Claim is at most the coverageAmount of
\* its farmer
C10_PayoutWithinCoverage ==
  \A id \in DOMAIN claims :
    claims[id].netPayout <= farmers[claims[id].farmerId].insuranceDetails.coverageAmount

\* C11: for a farmer whose coverageAmount is 0 or less no Claim is stored, no
\* transfer is invoked and no pass is at or past the transfer
C11_NoClaimWithoutCoverage ==
  /\ \A id \in DOMAIN claims :
       farmers[claims[id].farmerId].insuranceDetails.coverageAmount > 0
  /\ \A x \in transfers : farmers[x.farmer].insuranceDetails.coverageAmount > 0
  /\ \A p \in Passes :
       pass[p].pc \in {"payout", "record"} =>
         farmers[pass[p].farmer].insuranceDetails.coverageAmount > 0

\* C12: every farmer a pass has selected or is processing, every farmer of a
\* stored Claim and every farmer of a transfer is active, insurance-registered
\* and has policyStatus active
C12_OnlyActivePolicies ==
  /\ \A p \in Passes :
       /\ \A i \in 1..Len(pass[p].queue) : isEligibleForPayout(farmers[pass[p].queue[i]])
       /\ pass[p].pc \in {"fetch", "evaluate", "payout", "record"} =>
            isEligibleForPayout(farmers[pass[p].farmer])
  /\ \A id \in DOMAIN claims : isEligibleForPayout(farmers[claims[id].farmerId])
  /\ \A x \in transfers : isEligibleForPayout(farmers[x.farmer])

\* the pass has run to its end and settled a Claim of the first farmer, while
\* the second farmer, registered but with an expired policy, has no Claim
C12_Witness ==
  /\ started
  /\ \A p \in Passes : pass[p].pc = "idle"
  /\ \E id \in DOMAIN claims : claims[id].farmerId = "f1" /\ claims[id].status = "paid"
  /\ farmers["f2"].isActive
  /\ farmers["f2"].insuranceDetails.isRegistered
  /\ farmers["f2"].insuranceDetails.policyStatus = "expired"
  /\ \A id \in DOMAIN claims : claims[id].farmerId # "f2"

\* C13: for a coverage amount above 0 and n exceeded metrics the calculated
\* amount is a quarter of the coverage times n: the whole coverage for four
\* exceeded metrics, a quarter of it for one
C13_QuarterPerBreach ==
  probe.fn = "payout" =>
    \A amount \in probe.amount :
      LET C == probe.farmer.insuranceDetails.coverageAmount
          n == Cardinality({m \in DOMAIN probe.thresholdResults :
                              probe.thresholdResults[m].exceeded})
      IN  C > 0 =>
            /\ 4 * amount = C * n
            /\ n = 4 => amount = C
            /\ n = 1 => 4 * amount = C

\* the calculator has been called for a coverage of 1000 with two exceeded
\* metrics out of four and has returned 500
C13_Witness ==
  /\ probe.fn = "payout"
  /\ probe.farmer.insuranceDetails.coverageAmount = 1000
  /\ DOMAIN probe.thresholdResults = {"temperature", "rainfall", "humidity", "windSpeed"}
  /\ Cardinality({m \in DOMAIN probe.thresholdResults :
                     probe.thresholdResults[m].exceeded}) = 2
  /\ probe.amount = {500}

\* the phrase of a metric when the results hold it as exceeded, else nothing
PhraseIfExceeded(thresholdResults, m, phrase) ==
  IF m \in DOMAIN thresholdResults /\ thresholdResults[m].exceeded THEN phrase ELSE ""

\* two parts of a reason, with ", " between them when both are there
Sep(a, b) == IF a = "" THEN b ELSE IF b = "" THEN a ELSE a \o ", " \o b

\* C19: the trigger reason is the phrases of the exceeded metrics, one each, in
\* the order temperature, rainfall, humidity, wind speed, joined by ", ", and
\* it is not empty when a metric is exceeded
C19_TriggerReasonText ==
  probe.fn = "payout" =>
    \A reason \in probe.triggerReason :
      LET tr == probe.thresholdResults
          T == PhraseIfExceeded(tr, "temperature", "Temperature threshold exceeded")
          R == PhraseIfExceeded(tr, "rainfall", "Rainfall threshold exceeded")
          H == PhraseIfExceeded(tr, "humidity", "Humidity threshold exceeded")
          W == PhraseIfExceeded(tr, "windSpeed", "Wind speed threshold exceeded")
      IN  /\ reason = Sep(Sep(Sep(T, R), H), W)
          /\ (\E m \in DOMAIN tr : tr[m].exceeded) => reason # ""

\* the reason has been generated for results in which temperature and wind
\* speed are exceeded and rainfall and humidity are not
C19_Witness ==
  /\ probe.fn = "payout"
  /\ DOMAIN probe.thresholdResults = {"temperature", "rainfall", "humidity", "windSpeed"}
  /\ probe.triggerReason =
       {"Temperature threshold exceeded, Wind speed threshold exceeded"}

\* the bounds of a metric that the value lies beyond: below min, above max
\* (wind speed has a max only)
ViolatedBounds(m, values, thresholds) ==
  {b \in (IF m = "windSpeed" THEN {} ELSE thresholds[m].min) :
     \E v \in values[m] : v < b}
  \cup {b \in thresholds[m].max : \E v \in values[m] : v > b}

\* C14: in the results of both evaluators the exceeded flag of every metric
\* is true exactly when the value is below a present min bound or above a
\* present max bound; a value equal to a bound, an absent bound and the min
\* of wind speed never make it true
C14_ExceededIffBeyondBound ==
  probe.fn = "evaluate" =>
    \A r \in probe.results \cup probe.redstoneResults :
      /\ DOMAIN r = DOMAIN probe.thresholds
      /\ \A m \in DOMAIN r :
           r[m].exceeded <=> ViolatedBounds(m, probe.values, probe.thresholds) # {}

\* both evaluators have run on a temperature equal to its max bound with no
\* min bound, on which neither reports a breach, while the wind speed of the
\* same observation is above its max and is reported as exceeded
C14_Witness ==
  /\ probe.fn = "evaluate"
  /\ probe.values["temperature"] = {10}
  /\ probe.thresholds["temperature"] = [min |-> Undefined, max |-> {10}]
  /\ probe.values["windSpeed"] = {60}
  /\ \E r \in probe.results : ~r["temperature"].exceeded /\ r["windSpeed"].exceeded
  /\ \E r \in probe.redstoneResults : ~r["temperature"].exceeded /\ r["windSpeed"].exceeded

Abs(x) == IF x < 0 THEN -x ELSE x

\* the violated bounds nearest to the value (two when they are equally far)
NearestViolated(m, values, thresholds) ==
  LET violated == ViolatedBounds(m, values, thresholds)
  IN  {b \in violated :
         \A c \in violated : \A v \in values[m] : Abs(v - b) <= Abs(v - c)}

\* the severity of the deviation |value - bound| / |bound| for a bound other
\* than 0: above 0.5 critical, above 0.2 severe, else moderate
SeverityBeyond(v, b) ==
  IF 2 * Abs(v - b) > Abs(b) THEN "critical"
  ELSE IF 5 * Abs(v - b) > Abs(b) THEN "severe"
  ELSE "moderate"

\* C15: a metric that breaches no bound has severity normal, and a metric
\* that breaches a bound other than 0, positive or negative, has the severity
\* of |value - bound| / |bound| for the violated bound
C15_SeverityByDeviation ==
  probe.fn = "evaluate" =>
    \A r \in probe.redstoneResults : \A m \in DOMAIN r :
      LET nearest == NearestViolated(m, probe.values, probe.thresholds)
      IN  /\ nearest = {} => r[m].severity = "normal"
          /\ (nearest # {} /\ 0 \notin nearest) =>
                \E b \in nearest : \A v \in probe.values[m] :
                  r[m].severity = SeverityBeyond(v, b)

\* C16: the severity is always one of normal, moderate, severe and critical,
\* and it is critical when the violated bound is 0
C16_ZeroBoundCritical ==
  probe.fn = "evaluate" =>
    \A r \in probe.redstoneResults : \A m \in DOMAIN r :
      /\ r[m].severity \in {"normal", "moderate", "severe", "critical"}
      /\ NearestViolated(m, probe.values, probe.thresholds) = {0} =>
           r[m].severity = "critical"

\* the severity has been computed for a temperature of -5 under a min bound
\* of 0 and for one of 5 under a max bound of 0
C16_Witness ==
  /\ probe.fn = "evaluate"
  /\ \/ /\ probe.values["temperature"] = {-5}
        /\ probe.thresholds["temperature"].min = {0}
     \/ /\ probe.values["temperature"] = {5}
        /\ probe.thresholds["temperature"] = [min |-> Undefined, max |-> {0}]
  /\ \E r \in probe.redstoneResults : r["temperature"].severity = "critical"

\* C18: when the observation lacks the value of a metric, exceedsThresholds
\* still returns a result for every configured metric; the metric without a
\* value is not exceeded, and each other metric is exceeded exactly when its
\* value is beyond one of its bounds
C18_MissingMetricSkipped ==
  probe.fn = "evaluate" =>
    \A r \in probe.results :
      /\ DOMAIN r = DOMAIN probe.thresholds
      /\ \A m \in DOMAIN r :
           IF probe.values[m] = Undefined
           THEN ~r[m].exceeded /\ r[m].value = Undefined
           ELSE /\ r[m].value = probe.values[m]
                /\ r[m].exceeded <=>
                     ViolatedBounds(m, probe.values, probe.thresholds) # {}

\* the evaluation has run on an observation without a temperature, under a
\* temperature min bound of 10, and reports rainfall, humidity and wind speed
\* as exceeded and temperature as not exceeded
C18_Witness ==
  /\ probe.fn = "evaluate"
  /\ probe.values["temperature"] = Undefined
  /\ probe.thresholds["temperature"].min = {10}
  /\ \E r \in probe.results :
       /\ ~r["temperature"].exceeded
       /\ r["rainfall"].exceeded /\ r["humidity"].exceeded /\ r["windSpeed"].exceeded

\* C20: while a pass is between creating a farmer's Claim and recording its
\* transfer outcome, no other pass is processing the same farmer
C20_NoOverlappingSettlement ==
  \A p \in Passes : \A q \in Passes :
    (/\ p # q
     /\ pass[p].pc \in {"payout", "record"}
     /\ pass[q].pc \in {"fetch", "evaluate", "payout", "record"})
      => pass[p].farmer # pass[q].farmer

\* the fetch or the evaluation of the weather failed for the farmer
FailedFor(f) ==
  <<f, "fetchFailed">> \in skipped \/ <<f, "evaluateFailed">> \in skipped

\* the pass has dealt with the farmer: a Claim was created or the farmer was
\* left for one of the recorded reasons
HandledFor(f) ==
  \/ \E id \in DOMAIN claims : claims[id].farmerId = f
  \/ \E reason \in {"noBreach", "saveFailed", "fetchFailed", "evaluateFailed"} :
       <<f, reason>> \in skipped

\* C21: a farmer whose fetch or evaluation failed in the pass has no Claim and
\* no transfer and is not at the transfer, and a pass that met such a failure
\* and has ended has dealt with every farmer it selected
C21_FailureIsolated ==
  /\ \A f \in DOMAIN farmers :
       FailedFor(f) =>
         /\ \A id \in DOMAIN claims : claims[id].farmerId # f
         /\ \A x \in transfers : x.farmer # f
         /\ \A p \in Passes : pass[p].pc \in {"payout", "record"} => pass[p].farmer # f
  /\ (/\ started
      /\ \A p \in Passes : pass[p].pc = "idle"
      /\ \E f \in DOMAIN farmers : FailedFor(f))
       => \A g \in DOMAIN farmers : isEligibleForPayout(farmers[g]) => HandledFor(g)

\* the pass has ended; the fetch failed for the first farmer, who has no
\* Claim, and the second farmer's Claim was created and paid after that
C21_Witness ==
  /\ started
  /\ \A p \in Passes : pass[p].pc = "idle"
  /\ <<"f1", "fetchFailed">> \in skipped
  /\ \A id \in DOMAIN claims : claims[id].farmerId = "f2"
  /\ \E id \in DOMAIN claims : claims[id].status = "paid"
  /\ \E x \in transfers : x.farmer = "f2"

\* C22: the OpenWeather backup is queried only after the WeatherAPI primary
\* was queried and failed, and a call in which both providers failed ends
\* with a success: false result and no saved observation
C22_BackupOnlyAfterPrimaryFailed ==
  probe.fn = "getWeatherData" =>
    /\ (\E i \in 1..Len(probe.queried) : probe.queried[i] = "openweather") =>
          /\ probe.env.weatherapi = {}
          /\ probe.queried = <<"weatherapi", "openweather">>
    /\ (probe.pc = "done" /\ probe.env.weatherapi = {} /\ probe.env.openweather = {}) =>
          /\ ~probe.result.success
          /\ probe.result.data = {}
          /\ probe.saved = {}

\* a call has returned after both providers failed, and another shape of
\* call is excluded: both were queried, in order, and nothing was saved
C22_Witness ==
  /\ probe.fn = "getWeatherData"
  /\ probe.pc = "done"
  /\ probe.env.weatherapi = {}
  /\ probe.env.openweather = {}
  /\ probe.queried = <<"weatherapi", "openweather">>
  /\ ~probe.result.success

\* C24: the source.type of every saved observation is weatherapi when the
\* WeatherAPI fetch succeeded and openweather when the OpenWeather fallback
\* supplied the data
C24_SourceNamesProvider ==
  probe.fn = "getWeatherData" =>
    \A doc \in probe.saved :
      doc.source.type = IF probe.env.weatherapi # {} THEN "weatherapi" ELSE "openweather"

\* C23: a triggerPayout transaction that does not revert was sent by the
\* owner for a registered farmer with an amount above 0 and moves exactly
\* that amount of cUSD from the PayoutManager to the farmer; one sent by
\* another caller, for an unregistered farmer or with amount 0 reverts, and a
\* reverted one changes no token balance
C23_PayoutOnlyByOwner ==
  [][LET c == chain'.lastCall
         allowed == /\ c.caller = chain.owner
                    /\ chain.isFarmerRegistered[c.farmer]
                    /\ c.amount > 0
     IN  c.fn = "triggerPayout" =>
           /\ ~allowed => c.reverted
           /\ c.reverted => chain'.balances = chain.balances
           /\ ~c.reverted =>
                /\ allowed
                /\ chain'.balances =
                     [[chain.balances EXCEPT !["PayoutManager"] = @ - c.amount]
                        EXCEPT ![c.farmer] = @ + c.amount]]_vars

\* the owner has paid 1 cUSD to the registered farmer a1, who holds it
C23_Witness ==
  /\ chain.lastCall = Call("triggerPayout", "owner", "a1", 1, FALSE)
  /\ chain.isFarmerRegistered["a1"]
  /\ chain.balances["PayoutManager"] = MaxAmount - 1
  /\ chain.balances["a1"] + chain.balances["PremiumPool"] = MaxAmount + 1

\* C29: a registered address stays registered, the record of a registered
\* address a has wallet = a, registerFarmer by a registered address reverts
\* and updateFarmer by an unregistered address reverts, both without a
\* change of the registry
C29_RegistryInvariants ==
  [][LET c == chain'.lastCall
         unchanged == /\ chain'.farmers = chain.farmers
                      /\ chain'.isFarmerRegistered = chain.isFarmerRegistered
     IN  /\ \A a \in Accounts :
              /\ chain.isFarmerRegistered[a] => chain'.isFarmerRegistered[a]
              /\ chain'.isFarmerRegistered[a] => chain'.farmers[a].wallet = a
         /\ (c.fn = "registerFarmer" /\ chain.isFarmerRegistered[c.caller]) =>
              c.reverted /\ unchanged
         /\ (c.fn = "updateFarmer" /\ ~chain.isFarmerRegistered[c.caller]) =>
              c.reverted /\ unchanged]_vars

\* a1 is registered, has updated its record, and its second registerFarmer
\* has reverted
C29_Witness ==
  /\ chain.lastCall = Call("registerFarmer", "a1", "a1", 0, TRUE)
  /\ chain.isFarmerRegistered["a1"]
  /\ chain.farmers["a1"].wallet = "a1"
  /\ ~chain.isFarmerRegistered["owner"]

\* C30: a payPremium that does not revert comes from a registered caller with
\* an amount above 0 and adds that amount to the caller's farmerBalances
\* entry and to no other; a reverted payPremium changes nothing; every other
\* transaction, triggerPayout included, leaves farmerBalances as it is
C30_BalancesAreSumOfPremiums ==
  [][LET c == chain'.lastCall
     IN  IF c.fn = "payPremium" /\ ~c.reverted
         THEN /\ chain.isFarmerRegistered[c.caller]
              /\ c.amount > 0
              /\ chain'.farmerBalances =
                   [chain.farmerBalances EXCEPT ![c.caller] = @ + c.amount]
         ELSE /\ chain'.farmerBalances = chain.farmerBalances
              /\ c.fn = "payPremium" => [chain' EXCEPT !.lastCall = chain.lastCall] = chain]_vars

\* a1 has paid all its cUSD as premiums and a payout to a1 was made after
\* that; the farmerBalances entry still holds the premiums
C30_Witness ==
  /\ chain.farmerBalances["a1"] = MaxAmount
  /\ chain.lastCall.fn = "triggerPayout"
  /\ ~chain.lastCall.reverted
  /\ chain.lastCall.farmer = "a1"

\* C25: applied to the same metric values and the same thresholds,
\* redstoneService.checkWeatherThresholds and WeatherData.exceedsThresholds
\* return results for the same metrics, with the same exceeded flags
C25_EvaluatorsAgree ==
  probe.fn = "evaluate" =>
    \A r \in probe.results : \A q \in probe.redstoneResults :
      /\ DOMAIN r = DOMAIN q
      /\ \A m \in DOMAIN r : r[m].exceeded = q[m].exceeded

\* both evaluators have run on a temperature equal to its min bound, which
\* neither reports as exceeded, next to a rainfall that both report
C25_Witness ==
  /\ probe.fn = "evaluate"
  /\ probe.values["temperature"] = {-10}
  /\ probe.thresholds["temperature"].min = {-10}
  /\ \E r \in probe.results : ~r["temperature"].exceeded /\ r["rainfall"].exceeded
  /\ \E q \in probe.redstoneResults : ~q["temperature"].exceeded /\ q["rainfall"].exceeded

\* C26: whenever the stored evidence of a Claim changes, the stored status of
\* that Claim is pending, and every stored piece of evidence was sent by the
\* farmer of the Claim
C26_EvidenceOnlyWhilePending ==
  [][\A id \in DOMAIN claims :
       /\ claims'[id].evidence # claims[id].evidence => claims[id].status = "pending"
       /\ \A i \in 1..Len(claims'[id].evidence) :
            claims'[id].evidence[i].by = claims'[id].farmerId]_vars

\* C27: once a farmer is registered for insurance, no step changes the
\* farmer's insuranceDetails, and a register-insurance call that finds the
\* farmer or saves the farmer afterwards is not answered with 200
C27_RegisteredOnce ==
  [][\A f \in DOMAIN farmers :
       farmers[f].insuranceDetails.isRegistered =>
         /\ farmers'[f].insuranceDetails = farmers[f].insuranceDetails
         /\ \A r \in Requests :
              (http[r].route = "register" /\ http[r].farmer = f /\ http[r].pc # "done")
                => http'[r].response # 200]_vars

\* C28: the save of a weather-thresholds request leaves every bound that the
\* request body does not name at its stored value, for every farmer, and a
\* step that is not such a save changes no threshold
C28_OnlyNamedBoundsChange ==
  [][\A f \in DOMAIN farmers : \A m \in DOMAIN farmers[f].weatherThresholds :
       \A side \in DOMAIN farmers[f].weatherThresholds[m] :
         farmers'[f].weatherThresholds[m][side] # farmers[f].weatherThresholds[m][side] =>
           \E r \in Requests :
             /\ http[r].route = "thresholds" /\ http[r].farmer = f
             /\ http[r].pc = "save" /\ http'[r].response = 200
             /\ m \in DOMAIN http[r].body
             /\ side \in DOMAIN http[r].body[m]]_vars

====
